---- MODULE Spec2Model ----
(***************************************************************************)
(* Video analysis pipeline of inferencia-io: the LangGraph workflow        *)
(* extraction -> sentiment_analysis -> structuring over a run-state, and   *)
(* the Whisper transcription service that downloads audio to the temp      *)
(* directory, transcribes it and deletes it.                               *)
(*                                                                         *)
(* Several runs (graph.invoke calls) execute at once, as they do under a   *)
(* threaded web server; they share the temp directory and the process      *)
(* settings, nothing else.  Every external call (yt-dlp, the speech-to-    *)
(* text API, the chat model) is a nondeterministic choice over the         *)
(* outcomes it can produce.                                                *)
(***************************************************************************)
EXTENDS Integers, Sequences, FiniteSets, TLC

(***************************************************************************)
(* Python values.  None and a missing dict key are different things in the *)
(* code (dict.get(k, default) only defaults a missing key), so both are    *)
(* kept.  Optional text is a string or one of the two sentinels, optional  *)
(* numbers are a non-negative integer or one of the two negative           *)
(* sentinels, optional lists and dicts are <<>> (missing) or <<value>>.    *)
(***************************************************************************)
None == "<None>"
Absent == "<Absent>"
NoneInt == 0 - 1
AbsentInt == 0 - 2

Runs == {"r1", "r2"}
Nobody == "nobody"

\* whisper.py:85 -- every remote download writes this one path
temp_audio_mp3 == "temp_audio.mp3"

\* whisper.py:141 -- a local extraction writes f"temp_audio_{uuid.uuid4().hex}.mp3"
uuid_audio_path(r) ==
    IF r = "r1" THEN "temp_audio_0f1e2d3c.mp3" ELSE "temp_audio_9a8b7c6d.mp3"

Paths == {temp_audio_mp3} \cup {uuid_audio_path(r) : r \in Runs}

\* A file of the temp directory: kind "none" (no such file), "partial"
\* (left behind by an interrupted download or conversion) or "audio"; url is
\* the video it was taken from and language the language spoken in it.
NoFile == [kind |-> "none", owner |-> Nobody, url |-> None, language |-> None]

\* An error message f"{prefix}{detail}"
Msg(prefix, detail) == [prefix |-> prefix, detail |-> detail]
NoMsg == Msg("", None)

VARIABLES
    LLM_API_KEY,  \* settings.LLM_API_KEY: None or a key, fixed for the process
    files,        \* the temp directory: path -> file
    state,        \* run -> VideoAnalysisState of that graph.invoke
    pc,           \* run -> where the run is
    svc,          \* run -> locals of get_transcript / transcribe_audio
    invoked,      \* history: run -> the stages started, in order
    returned,     \* history: run -> the status each finished stage returned
    acq,          \* history: run -> acquisition path taken
    heard,        \* history: run -> owner of the audio the transcription read
    foreign,      \* history: file operations that touched another run's file
    rm,           \* history: run -> os.remove calls inside transcribe_audio
    prompts,      \* history: run -> what each chain.invoke sent to the chat model
    calls,        \* history: run -> number of downloads and of transcriptions
    request,      \* run -> the data of the POST that starts it
    response,     \* run -> the HTTP response of that POST
    record,       \* run -> the VideoAnalysis rows that POST created
    staged,       \* run -> the uploaded video in the temp directory
    whisper       \* run -> the WhisperResponse of a direct service call

\* The request, the response and the rows of one POST, and its staged upload
http == <<request, response, record, staged>>

vars == <<LLM_API_KEY, files, state, pc, svc, invoked, returned, acq, heard, foreign, rm,
          prompts, calls, request, response, record, staged, whisper>>

----------------------------------------------------------------------------
(* state.py: VideoAnalysisState, and graph.py: the transition rule *)

\* The state right after graph.invoke(input): only the input keys are set.
VideoAnalysisState(url, path) ==
    [video_url |-> url, video_path |-> path,
     transcript |-> Absent, title |-> Absent,
     duration_seconds |-> AbsentInt, language_code |-> Absent,
     sentiment |-> Absent, sentiment_score |-> AbsentInt, tone |-> Absent,
     key_points |-> <<>>, final_result |-> <<>>,
     errors |-> <<>>, status |-> Absent]

\* A node's return value is written key by key over the state; a key that
\* is not a channel of the state schema ("metadata") is dropped.
Merge(s, patch) ==
    [k \in DOMAIN s |-> IF k \in DOMAIN patch THEN patch[k] ELSE s[k]]

status_end == {"failed", "skipped"}

should_continue_never_ends(s) == "continue"

should_continue(s) ==
    IF s.errors # <<>> \/ s.status \in status_end THEN "end" ELSE "continue"

should_continue_after_extraction(s) == should_continue(s)

should_continue_after_sentiment(s) == should_continue(s)

EdgeAfter_unconditional(node, s) ==
    CASE node = "extraction" -> "sentiment_analysis"
      [] node = "sentiment_analysis" -> "structuring"
      [] node = "structuring" -> "END"

EdgeAfter_skips_sentiment(node, s) ==
    CASE node = "extraction" ->
            IF should_continue_after_extraction(s) = "continue"
            THEN "structuring" ELSE "END"
      [] node = "sentiment_analysis" ->
            IF should_continue_after_sentiment(s) = "continue"
            THEN "structuring" ELSE "END"
      [] node = "structuring" -> "END"

\* add_conditional_edges / add_edge of create_video_analysis_graph
EdgeAfter(node, s) ==
    CASE node = "extraction" ->
            IF should_continue_after_extraction(s) = "continue"
            THEN "sentiment_analysis" ELSE "END"
      [] node = "sentiment_analysis" ->
            IF should_continue_after_sentiment(s) = "continue"
            THEN "structuring" ELSE "END"
      [] node = "structuring" -> "END"

----------------------------------------------------------------------------
(* helpers.py and the inputs of the external services *)

\* dict.get(key, default): only a missing key takes the default
dict_get(v, default) == IF v = Absent THEN default ELSE v

dict_get_int(v, default) == IF v = AbsentInt THEN default ELSE v

\* str.lower, str.split('-')[0] and str.strip on the language tags that
\* yt-dlp reports here
str_lower(t) ==
    CASE t = "en-US" -> "en-us"
      [] t = "ES" -> "es"
      [] t = "English" -> "english"
      [] t = "SPANISH" -> "spanish"
      [] t = "Klingon" -> "klingon"
      [] OTHER -> t

split_first(t) ==
    CASE t = "en-us" -> "en"
      [] t = "en-US" -> "en"
      [] OTHER -> t

str_strip(t) == t

\* whisper.py:105-107
normalize_language(language) ==
    IF language # None THEN str_strip(split_first(str_lower(language)))
    ELSE language

\* helpers.py:20-33
LANGUAGE_CODE_MAP ==
    [name \in {"english", "spanish", "portuguese", "french", "german", "italian",
               "chinese", "japanese", "korean", "arabic", "russian", "hindi"} |->
        CASE name = "english" -> "en"
          [] name = "spanish" -> "es"
          [] name = "portuguese" -> "pt"
          [] name = "french" -> "fr"
          [] name = "german" -> "de"
          [] name = "italian" -> "it"
          [] name = "chinese" -> "zh"
          [] name = "japanese" -> "ja"
          [] name = "korean" -> "ko"
          [] name = "arabic" -> "ar"
          [] name = "russian" -> "ru"
          [] name = "hindi" -> "hi"]

\* The outcome of a call that raised instead of returning
Raised == "<raised AttributeError>"

\* helpers.py:36-45 -- language_code.lower() on None raises AttributeError;
\* LANGUAGE_CODE_MAP.get(code, None)
get_iso_639_1_code(language_code) ==
    IF language_code = None
    THEN Raised
    ELSE LET code == str_lower(language_code)
         IN IF code \in DOMAIN LANGUAGE_CODE_MAP THEN LANGUAGE_CODE_MAP[code] ELSE None

\* The languages spoken in the local videos, by the names the speech-to-text
\* API can report them under
LocalLanguages ==
    DOMAIN LANGUAGE_CODE_MAP \cup {"English", "SPANISH", "klingon", "Klingon", "en"}

YoutubeUrls == {"https://www.youtube.com/watch?v=a",
                "https://www.youtube.com/watch?v=b"}
UploadUrl == "upload://clip.mp4"

\* views.py:137-140 -- tempfile.NamedTemporaryFile(delete=False, suffix=".mp4")
\* gives every request a path of its own
NamedTemporaryFile(r) == IF r = "r1" THEN "/tmp/tmp_r1.mp4" ELSE "/tmp/tmp_r2.mp4"

\* What is said in a video; a silent video has the transcript "".
Speech(url) ==
    CASE url = "https://www.youtube.com/watch?v=a" -> "speech of a"
      [] url = "https://www.youtube.com/watch?v=b" -> "speech of b"
      [] OTHER -> ""

\* The info dict of yt-dlp: every key may be missing.
InfoDicts ==
    {[title |-> "A title", duration |-> 10, language |-> "en-US"],
     [title |-> Absent, duration |-> AbsentInt, language |-> Absent]}

\* How ydl.extract_info(url, download=True) can end.  A failure can come
\* after yt-dlp has written part of its output (an interrupted download, a
\* failed mp3 conversion).  An upload:// URL is not something yt-dlp can fetch.
DownloadOutcomes(url) ==
    IF url \in YoutubeUrls
    THEN {"ok", "DownloadError", "DownloadError, partial file",
          "Exception", "Exception, partial file"}
    ELSE {"DownloadError"}

\* The language spoken in the videos behind the URLs
SpokenIn(url) == "english"

\* The language attribute of a verbose_json transcription of the audio f:
\* the name of the language spoken, when the attribute is present
DetectedLanguages(f) == {f.language, Absent}

NoMetadata == [title |-> None, duration_seconds |-> NoneInt, language_code |-> None]

\* Locals of one get_transcript or get_transcript_from_file call
NoCall ==
    [audio_path |-> None, dl_success |-> FALSE, dl_error |-> NoMsg,
     has_metadata |-> FALSE, metadata |-> NoMetadata,
     transcript |-> None, tr_language |-> None, tr_success |-> FALSE,
     tr_error |-> NoMsg, existed |-> FALSE,
     raised |-> "none", caller |-> "get_transcript", probed |-> AbsentInt]

----------------------------------------------------------------------------
(* serializers.py, models.py and the responses of views.py *)

\* A well-formed URL of another site (tests.py:22)
NotYoutubeUrl == "https://www.yoyobe.com/watch?v=a"

\* request.data of a POST: a key may be missing
NoRequest == [view |-> "none", video_url |-> Absent, video |-> Absent]

Requests ==
    {[view |-> "youtube", video_url |-> u, video |-> Absent] :
        u \in YoutubeUrls \cup {NotYoutubeUrl, Absent}}
    \cup {[view |-> "upload", video_url |-> Absent, video |-> v] :
        v \in {"clip.mp4", "notes.txt", Absent}}

\* "youtube." in value
contains_youtube(value) ==
    CASE value = "https://www.youtube.com/watch?v=a" -> TRUE
      [] value = "https://www.youtube.com/watch?v=b" -> TRUE
      [] OTHER -> FALSE

\* value.name.lower().endswith(".mp4")
endswith_mp4(name) ==
    CASE name = "clip.mp4" -> TRUE
      [] OTHER -> FALSE

\* serializers.py:5-31 -- serializer.is_valid(): the field is required and
\* passes its validate_ method
is_valid(req) ==
    IF req.view = "youtube"
    THEN req.video_url # Absent /\ contains_youtube(req.video_url)
    ELSE req.video # Absent /\ endswith_mp4(req.video)

\* A VideoAnalysis row as objects.create(video_url=...) makes it: every
\* other column is NULL (models.py)
NewRow(url) ==
    [video_url |-> url, title |-> None, duration_seconds |-> NoneInt,
     language_code |-> None, transcript |-> None, sentiment |-> None,
     sentiment_score |-> NoneInt, tone |-> None, key_points |-> <<>>,
     errors |-> <<>>]

NoResponse == [status |-> 0, keys |-> {}, details |-> <<>>, data |-> <<>>]

\* What the client gets when an exception leaves post(): the framework's
\* server error, which is not a body of the view
UncaughtResponse == [status |-> 500, keys |-> {}, details |-> <<>>, data |-> <<>>]

\* views.py:88-99 and views.py:186-195 -- except Exception as e
UnexpectedResponse(e) ==
    [status |-> 500, keys |-> {"error", "details"}, details |-> <<e>>, data |-> <<>>]

\* The video file of an upload or of a direct call: none, partly written
\* or whole, and the language spoken in it
NoStaged == [kind |-> "none", language |-> None]

\* WhisperResponse: no call has returned yet
NoWhisperResponse ==
    [returned |-> FALSE, transcript |-> None, has_metadata |-> FALSE,
     metadata |-> NoMetadata, error |-> NoMsg]

----------------------------------------------------------------------------
Init ==
    /\ LLM_API_KEY \in {None, "sk-key"}
    /\ files = [p \in Paths |-> NoFile]
    /\ state = [r \in Runs |-> VideoAnalysisState(Absent, Absent)]
    /\ pc = [r \in Runs |-> "START"]
    /\ svc = [r \in Runs |-> NoCall]
    /\ invoked = [r \in Runs |-> <<>>]
    /\ returned = [r \in Runs |-> <<>>]
    /\ acq = [r \in Runs |-> "none"]
    /\ heard = [r \in Runs |-> Nobody]
    /\ foreign = {}
    /\ rm = [r \in Runs |-> 0]
    /\ prompts = [r \in Runs |-> <<>>]
    /\ calls = [r \in Runs |-> [download |-> 0, transcribe |-> 0]]
    /\ request = [r \in Runs |-> NoRequest]
    /\ response = [r \in Runs |-> NoResponse]
    /\ record = [r \in Runs |-> <<>>]
    /\ staged = [r \in Runs |-> NoStaged]
    /\ whisper = [r \in Runs |-> NoWhisperResponse]

\* A file operation of run r on file f is recorded when f is another run's.
Touch(r, op, f) ==
    IF f.kind # "none" /\ f.owner # r
    THEN foreign \cup {[by |-> r, op |-> op, of |-> f.owner]}
    ELSE foreign

(* views.py: the two POST handlers up to graph.invoke *)

\* views.py:23-42 and views.py:117-140 -- post() up to the graph: validate,
\* create the row, and for an upload write the chunks to the temp file.
\* On invalid data the handler calls convert_errors_to_list with
\* serializer.errors.items(); the helper (helpers.py:13-17) calls .items() on
\* what it is given, a dict_items object has no such attribute, and the
\* AttributeError leaves post() before objects.create and before the Response.
\* For an upload temp_path is assigned after the last chunk, so an exception
\* while writing leaves the file and temp_path = None.
post_begin(r) ==
    /\ pc[r] = "START"
    /\ request[r] = NoRequest
    /\ \E req \in Requests :
          /\ request' = [request EXCEPT ![r] = req]
          /\ IF ~is_valid(req)
             THEN /\ response' = [response EXCEPT ![r] = UncaughtResponse]
                  /\ UNCHANGED record
                  /\ UNCHANGED staged
             ELSE IF req.view = "youtube"
             THEN /\ record' = [record EXCEPT ![r] = <<NewRow(req.video_url)>>]
                  /\ UNCHANGED <<response, staged>>
             ELSE \/ /\ record' = [record EXCEPT ![r] = <<NewRow(UploadUrl)>>]
                     /\ staged' = [staged EXCEPT ![r] = [kind |-> "video", language |-> "english"]]
                     /\ UNCHANGED response
                  \/ /\ record' = [record EXCEPT ![r] =
                            <<[NewRow(UploadUrl) EXCEPT !.errors = <<Msg("", "No space left on device")>>]>>]
                     /\ staged' = [staged EXCEPT ![r] = [kind |-> "partial", language |-> "english"]]
                     /\ response' = [response EXCEPT ![r] =
                            UnexpectedResponse(Msg("", "No space left on device"))]
    /\ UNCHANGED <<LLM_API_KEY, files, state, pc, svc, invoked, returned, acq, heard,
                   foreign, rm, prompts, calls, whisper>>

\* The input dict of graph.invoke: views.py:46 and views.py:143-146
graph_input(r) ==
    IF request[r].view = "youtube"
    THEN [video_url |-> request[r].video_url, video_path |-> Absent]
    ELSE [video_url |-> UploadUrl, video_path |-> NamedTemporaryFile(r)]

graph_invoke_keeps_state(r) ==
    /\ pc[r] = "START"
    /\ request[r] # NoRequest
    /\ response[r] = NoResponse
    /\ state' = [state EXCEPT ![r] =
                    IF \E q \in Runs \ {r} : pc[q] = "END"
                    THEN [state[CHOOSE q \in Runs \ {r} : pc[q] = "END"]
                            EXCEPT !.video_url = graph_input(r).video_url,
                                   !.video_path = graph_input(r).video_path]
                    ELSE VideoAnalysisState(graph_input(r).video_url,
                                            graph_input(r).video_path)]
    /\ pc' = [pc EXCEPT ![r] = "extraction"]
    /\ UNCHANGED <<LLM_API_KEY, files, svc, invoked, returned, acq, heard, foreign, rm, prompts, calls, http, whisper>>

\* views.py:45-46 and views.py:142-146 -- graph.invoke(input): every call
\* starts from the input alone (the graph is compiled without a checkpointer)
graph_invoke(r) ==
    /\ pc[r] = "START"
    /\ request[r] # NoRequest
    /\ response[r] = NoResponse
    /\ state' = [state EXCEPT ![r] =
                    VideoAnalysisState(graph_input(r).video_url, graph_input(r).video_path)]
    /\ pc' = [pc EXCEPT ![r] = "extraction"]
    /\ UNCHANGED <<LLM_API_KEY, files, svc, invoked, returned, acq, heard, foreign, rm, prompts, calls, http, whisper>>

----------------------------------------------------------------------------
(* services/whisper.py: WhisperTranscriptionService *)

\* nodes.py:54-57 -- the extraction node starts and builds the service.
\* OpenAI(api_key=None) raises unless the process environment holds
\* OPENAI_API_KEY; nothing around the constructor catches that.
extraction_node_begin(r) ==
    /\ pc[r] = "extraction"
    /\ invoked' = [invoked EXCEPT ![r] = Append(@, "extraction")]
    /\ \/ pc' = [pc EXCEPT ![r] = "download_audio"]
       \/ /\ LLM_API_KEY = None
          /\ pc' = [pc EXCEPT ![r] = "RAISED"]
    /\ svc' = [svc EXCEPT ![r] = NoCall]
    /\ UNCHANGED <<LLM_API_KEY, files, state, returned, acq, heard, foreign, rm, prompts, calls, http, whisper>>

\* The path the download writes: whisper.py:85
download_audio_path(r) == temp_audio_mp3

\* whisper.py:108-112
download_metadata(info) ==
    [title |-> dict_get(info.title, ""),
     duration_seconds |-> dict_get_int(info.duration, 0),
     language_code |-> normalize_language(dict_get(info.language, None))]

\* The class of the exception that ends a failed extract_info
exception_class(outcome) ==
    IF outcome \in {"DownloadError", "DownloadError, partial file"}
    THEN "DownloadError" ELSE "Exception"

download_error_generic(outcome) ==
    Msg("Error while downloading audio: ", "connection reset")

\* whisper.py:120-135 -- the two except branches
download_error(outcome) ==
    IF exception_class(outcome) = "DownloadError"
    THEN Msg("DownloadError while downloading audio: ", "video unavailable")
    ELSE Msg("Error while downloading audio: ", "connection reset")

\* whisper.py:75-135 (called at whisper.py:253)
download_audio(r) ==
    /\ pc[r] = "download_audio"
    /\ acq' = [acq EXCEPT ![r] = "remote"]
    /\ LET path == download_audio_path(r)
           old == files[path]
           url == state[r].video_url
       IN \E outcome \in DownloadOutcomes(url) :
            IF outcome = "ok"
            THEN \E info \in InfoDicts :
                   /\ files' = [files EXCEPT ![path] =
                                   [kind |-> "audio", owner |-> r, url |-> url,
                                    language |-> SpokenIn(url)]]
                   /\ foreign' = Touch(r, "overwrite", old)
                   /\ svc' = [svc EXCEPT ![r] =
                                 [NoCall EXCEPT !.audio_path = path,
                                                !.dl_success = TRUE,
                                                !.has_metadata = TRUE,
                                                !.metadata = download_metadata(info)]]
                   /\ pc' = [pc EXCEPT ![r] = "transcribe_audio"]
            ELSE /\ IF outcome \in {"DownloadError, partial file", "Exception, partial file"}
                    THEN /\ files' = [files EXCEPT ![path] =
                                         [kind |-> "partial", owner |-> r, url |-> url,
                                          language |-> SpokenIn(url)]]
                         /\ foreign' = Touch(r, "overwrite", old)
                    ELSE UNCHANGED <<files, foreign>>
                 /\ svc' = [svc EXCEPT ![r] =
                               [NoCall EXCEPT !.dl_error = download_error(outcome),
                                              !.raised = exception_class(outcome)]]
                 /\ pc' = [pc EXCEPT ![r] = "extraction_return"]
    /\ calls' = [calls EXCEPT ![r].download = @ + 1]
    /\ UNCHANGED <<LLM_API_KEY, state, invoked, returned, heard, rm, prompts, http, whisper>>

finally_on_success_only(success) == success

\* whisper.py:212-214 -- the finally block runs however the try block ended
finally_cleanup(success) == TRUE

\* whisper.py:195-211 -- open the file and call the speech-to-text API;
\* every exception becomes an error response.
transcribe_audio(r) ==
    /\ pc[r] = "transcribe_audio"
    /\ LET f == files[svc[r].audio_path]
       IN /\ IF f.kind = "none"
             THEN /\ svc' = [svc EXCEPT ![r].tr_error = Msg("", "[Errno 2] No such file or directory"),
                                        ![r].existed = FALSE]
                  /\ UNCHANGED <<heard, foreign>>
             ELSE /\ heard' = [heard EXCEPT ![r] = f.owner]
                  /\ foreign' = Touch(r, "read", f)
                  /\ \/ \E text \in {Speech(f.url), ""}, lang \in DetectedLanguages(f) :
                           svc' = [svc EXCEPT ![r].transcript = text,
                                              ![r].tr_language = dict_get(lang, None),
                                              ![r].tr_success = TRUE,
                                              ![r].existed = TRUE]
                     \/ svc' = [svc EXCEPT ![r].tr_error = Msg("", "Connection error."),
                                           ![r].existed = TRUE]
    /\ rm' = [rm EXCEPT ![r] = 0]
    /\ pc' = [pc EXCEPT ![r] = IF finally_cleanup(svc'[r].tr_success)
                                THEN "finally_exists" ELSE "after_exists"]
    /\ calls' = [calls EXCEPT ![r].transcribe = @ + 1]
    /\ UNCHANGED <<LLM_API_KEY, files, state, invoked, returned, acq, prompts, http, whisper>>

\* Where a delete_temp_file call returns to: the finally block of
\* transcribe_audio (whisper.py:212-214) returns into get_transcript, which
\* calls delete_temp_file again (whisper.py:265-266) and then builds its result.
\* get_transcript_from_file does not delete the audio again
\* (whisper.py:296-298).
AfterDelete(at, caller) ==
    CASE at \in {"finally_exists", "finally_remove"} ->
            IF caller = "get_transcript" THEN "after_exists" ELSE "from_file_return"
      [] at \in {"after_exists", "after_remove"} -> "extraction_return"

os_path_exists(f) == f.kind # "none"

\* whisper.py:71 -- if file_path and os.path.exists(file_path)
delete_temp_file_exists(r) ==
    /\ pc[r] \in {"finally_exists", "after_exists"}
    /\ LET path == svc[r].audio_path
       IN IF path # None /\ os_path_exists(files[path])
          THEN pc' = [pc EXCEPT ![r] =
                         IF pc[r] = "finally_exists" THEN "finally_remove" ELSE "after_remove"]
          ELSE pc' = [pc EXCEPT ![r] = AfterDelete(pc[r], svc[r].caller)]
    /\ UNCHANGED <<LLM_API_KEY, files, state, svc, invoked, returned, acq, heard, foreign, rm, prompts, calls, http, whisper>>

os_remove(f) == NoFile

\* whisper.py:72 -- os.remove(file_path); FileNotFoundError when the file
\* went away since the check, and nothing catches it.
delete_temp_file_remove(r) ==
    /\ pc[r] \in {"finally_remove", "after_remove"}
    /\ LET path == svc[r].audio_path
           f == files[path]
       IN IF f.kind # "none"
          THEN /\ files' = [files EXCEPT ![path] = os_remove(f)]
               /\ foreign' = Touch(r, "delete", f)
               /\ rm' = [rm EXCEPT ![r] = IF pc[r] = "finally_remove" THEN @ + 1 ELSE @]
               /\ pc' = [pc EXCEPT ![r] = AfterDelete(pc[r], svc[r].caller)]
          ELSE /\ pc' = [pc EXCEPT ![r] = "RAISED"]
               /\ UNCHANGED <<files, foreign, rm>>
    /\ UNCHANGED <<LLM_API_KEY, state, svc, invoked, returned, acq, heard, prompts, calls, http, whisper>>

\* Python truthiness of an Optional[str] error
Truthy(msg) == msg # NoMsg /\ ~(msg.prefix = "" /\ msg.detail = "")

\* whisper.py:254-277 -- the WhisperResponse of get_transcript.  On a failed
\* download audio_path is None, so the delete of whisper.py:255-256 is skipped.
get_transcript_result(sv) ==
    IF ~sv.dl_success
    THEN [transcript |-> None, has_metadata |-> FALSE, metadata |-> NoMetadata,
          error |-> sv.dl_error]
    ELSE [transcript |-> sv.transcript, has_metadata |-> TRUE,
          metadata |-> [title |-> sv.metadata.title,
                        duration_seconds |-> sv.metadata.duration_seconds,
                        language_code |-> sv.metadata.language_code],
          error |-> sv.tr_error]

----------------------------------------------------------------------------
(* services/whisper.py: get_transcript_from_file, called on a local video *)

\* whisper.py:291 and whisper.py:305 -- delete_temp_file(video_path)
delete_video(f) == IF os_path_exists(f) THEN NoStaged ELSE f

\* os.path.splitext(os.path.basename(video_path))[0]
basename_stem(path) ==
    CASE path = "/tmp/tmp_r1.mp4" -> "tmp_r1"
      [] path = "/tmp/tmp_r2.mp4" -> "tmp_r2"
      [] OTHER -> path

\* What _get_video_duration_seconds can return for a ten-second video:
\* int(duration), or None when ffprobe or the parsing failed (whisper.py:216-240)
ProbeOutcomes == {10, NoneInt}

\* whisper.py:137-181 (called at whisper.py:288) -- ffmpeg writes the audio
\* of the video to a path of its own; check=True turns a failure into an
\* exception, which becomes an error response with audio_path None.
extract_audio_from_video(r) ==
    /\ pc[r] = "get_transcript_from_file"
    /\ acq' = [acq EXCEPT ![r] = "local"]
    /\ LET path == uuid_audio_path(r)
           video_path == NamedTemporaryFile(r)
           call == [NoCall EXCEPT !.caller = "get_transcript_from_file"]
       IN \/ /\ staged[r].kind = "video"
             /\ \E probe \in ProbeOutcomes :
                  svc' = [svc EXCEPT ![r] =
                            [call EXCEPT !.audio_path = path,
                                         !.dl_success = TRUE,
                                         !.has_metadata = TRUE,
                                         !.metadata = [title |-> basename_stem(video_path),
                                                       duration_seconds |-> probe,
                                                       language_code |-> None]]]
             /\ files' = [files EXCEPT ![path] =
                             [kind |-> "audio", owner |-> r, url |-> video_path,
                              language |-> staged[r].language]]
             /\ pc' = [pc EXCEPT ![r] = "transcribe_audio"]
          \/ /\ \/ /\ staged[r].kind = "video"
                   /\ files' = [files EXCEPT ![path] =
                                   [kind |-> "partial", owner |-> r, url |-> video_path,
                                    language |-> staged[r].language]]
                \/ UNCHANGED files
             /\ svc' = [svc EXCEPT ![r] =
                           [call EXCEPT !.dl_error =
                               Msg("Error extracting audio from video: ",
                                   "Command 'ffmpeg' returned non-zero exit status 1.")]]
             /\ pc' = [pc EXCEPT ![r] = "from_file_return"]
    /\ UNCHANGED <<LLM_API_KEY, state, invoked, returned, heard, foreign, rm, prompts,
                   calls, http, whisper>>

get_transcript_from_file_result_from_acquisition(sv, probe) ==
    IF ~sv.dl_success
    THEN [returned |-> TRUE, transcript |-> None, has_metadata |-> FALSE,
          metadata |-> NoMetadata, error |-> sv.dl_error]
    ELSE [returned |-> TRUE, transcript |-> sv.transcript, has_metadata |-> TRUE,
          metadata |-> [title |-> sv.metadata.title,
                        duration_seconds |-> sv.metadata.duration_seconds,
                        language_code |-> sv.metadata.language_code],
          error |-> sv.tr_error]

\* whisper.py:290-310 -- the WhisperResponse of get_transcript_from_file;
\* probe is what _get_video_duration_seconds(video_path) returned at line 300
get_transcript_from_file_result(sv, probe) ==
    IF ~sv.dl_success
    THEN [returned |-> TRUE, transcript |-> None, has_metadata |-> FALSE,
          metadata |-> NoMetadata, error |-> sv.dl_error]
    ELSE [returned |-> TRUE, transcript |-> sv.transcript, has_metadata |-> TRUE,
          metadata |-> [title |-> sv.metadata.title,
                        duration_seconds |-> probe,
                        language_code |-> get_iso_639_1_code(sv.tr_language)],
          error |-> sv.tr_error]

\* whisper.py:290-310 -- after a failed extraction the video is deleted and
\* the error returned; otherwise the metadata is built (probing the video,
\* normalising the detected language), then the video is deleted.  An
\* exception of get_iso_639_1_code leaves the call before the delete.
get_transcript_from_file_return(r) ==
    /\ pc[r] = "from_file_return"
    /\ \E probe \in ProbeOutcomes :
          LET result == get_transcript_from_file_result(svc[r], probe)
          IN IF result.has_metadata /\ result.metadata.language_code = Raised
             THEN /\ pc' = [pc EXCEPT ![r] = "RAISED"]
                  /\ svc' = [svc EXCEPT ![r].probed = probe]
                  /\ UNCHANGED <<whisper, staged>>
             ELSE /\ whisper' = [whisper EXCEPT ![r] = result]
                  /\ staged' = [staged EXCEPT ![r] = delete_video(@)]
                  /\ svc' = [svc EXCEPT ![r].probed =
                                IF svc[r].dl_success THEN probe ELSE AbsentInt]
                  /\ pc' = [pc EXCEPT ![r] = "RETURNED"]
    /\ UNCHANGED <<LLM_API_KEY, files, state, invoked, returned, acq, heard, foreign, rm,
                   prompts, calls, request, response, record>>

----------------------------------------------------------------------------
(* nodes.py: the three stages *)

extraction_patch_keeps_metadata(result) ==
    IF Truthy(result.error)
    THEN [errors |-> <<result.error>>, status |-> "failed",
          title |-> IF result.has_metadata THEN result.metadata.title ELSE "",
          duration_seconds |-> IF result.has_metadata
                               THEN result.metadata.duration_seconds ELSE 0]
    ELSE [transcript |-> result.transcript,
          metadata |-> result.metadata,
          title |-> IF result.has_metadata THEN result.metadata.title ELSE "",
          duration_seconds |-> IF result.has_metadata
                               THEN result.metadata.duration_seconds ELSE 0,
          language_code |-> IF result.has_metadata
                            THEN result.metadata.language_code ELSE "unknown",
          status |-> "extracted"]

\* nodes.py:61-75
extraction_patch(result) ==
    IF Truthy(result.error)
    THEN [errors |-> <<result.error>>, status |-> "failed"]
    ELSE [transcript |-> result.transcript,
          metadata |-> result.metadata,
          title |-> IF result.has_metadata THEN result.metadata.title ELSE "",
          duration_seconds |-> IF result.has_metadata
                               THEN result.metadata.duration_seconds ELSE 0,
          language_code |-> IF result.has_metadata
                            THEN result.metadata.language_code ELSE "unknown",
          status |-> "extracted"]

\* get_transcript returns, extraction_node returns its patch, the graph
\* writes it to the state and takes the conditional edge.
extraction_node_return(r) ==
    /\ pc[r] = "extraction_return"
    /\ LET s == Merge(state[r], extraction_patch(get_transcript_result(svc[r])))
       IN /\ state' = [state EXCEPT ![r] = s]
          /\ returned' = [returned EXCEPT ![r] = Append(@, s.status)]
          /\ pc' = [pc EXCEPT ![r] = EdgeAfter("extraction", s)]
    /\ UNCHANGED <<LLM_API_KEY, files, svc, invoked, acq, heard, foreign, rm, prompts, calls, http, whisper>>

Falsy_none_only(text) == text \in {Absent, None}

\* not transcript
Falsy(text) == text \in {Absent, None, ""}

\* What the chat model can answer for SentimentAnalysis (score in tenths)
\* and for KeyPointsExtraction; the schemas only fix the types.
SentimentAnswers ==
    {[sentiment |-> "positive", sentiment_score |-> 9, tone |-> "motivational"],
     [sentiment |-> "mixed", sentiment_score |-> 15, tone |-> "sarcastic"]}

KeyPointsAnswers ==
    {<<"point 1", "point 2", "point 3">>, <<"point 1">>, <<>>,
     <<"point 1", "point 2", "point 3", "point 4">>}

\* llm_config.py:4-20
get_llm_raises == LLM_API_KEY = None

\* nodes.py:112 and nodes.py:171 -- the cap on what is sent to the chat model
MaxPromptChars == 5000

\* len(text): the names of the transcripts stand for texts of these lengths,
\* one just over the cap and one exactly at it
str_len(text) ==
    CASE text = "speech of a" -> MaxPromptChars + 1
      [] text = "speech of b" -> MaxPromptChars
      [] OTHER -> 0

\* text[:n] -- the first n characters of text, all of it when it is shorter
py_slice(text, n) ==
    [of |-> text, chars |-> IF n < str_len(text) THEN n ELSE str_len(text)]

\* text itself
whole(text) == [of |-> text, chars |-> str_len(text)]

truncated_transcript_off_by_one(transcript) ==
    IF str_len(transcript) > MaxPromptChars
    THEN py_slice(transcript, MaxPromptChars - 1) ELSE whole(transcript)

\* nodes.py:112 and nodes.py:171
truncated_transcript(transcript) ==
    IF str_len(transcript) > MaxPromptChars
    THEN py_slice(transcript, MaxPromptChars) ELSE whole(transcript)

\* chain.invoke is reached: the transcript is there and get_llm returned
reaches_chain_invoke(s) == ~Falsy(s.transcript) /\ ~get_llm_raises

\* nodes.py:115-118 and nodes.py:174-177 -- the input of chain.invoke
chain_invoke(r, node) ==
    IF reaches_chain_invoke(state[r])
    THEN prompts' = [prompts EXCEPT ![r] =
                        Append(@, [node |-> node,
                                   transcript |-> truncated_transcript(state[r].transcript)])]
    ELSE UNCHANGED prompts

\* nodes.py:80-133
sentiment_analysis_patches(s) ==
    IF Falsy(s.transcript)
    THEN {[errors |-> <<Msg("No transcript available", "")>>, status |-> "skipped"]}
    ELSE IF get_llm_raises
    THEN {[errors |-> <<Msg("Error analyzing sentiment: ", "No API key found.")>>,
           status |-> "failed"]}
    ELSE {[sentiment |-> a.sentiment, sentiment_score |-> a.sentiment_score,
           tone |-> a.tone, status |-> "analyzed"] : a \in SentimentAnswers}
         \cup {[errors |-> <<Msg("Error analyzing sentiment: ", "Failed to parse output")>>,
                status |-> "failed"]}

sentiment_analysis_node(r) ==
    /\ pc[r] = "sentiment_analysis"
    /\ invoked' = [invoked EXCEPT ![r] = Append(@, "sentiment_analysis")]
    /\ \E patch \in sentiment_analysis_patches(state[r]) :
          LET s == Merge(state[r], patch)
          IN /\ state' = [state EXCEPT ![r] = s]
             /\ returned' = [returned EXCEPT ![r] = Append(@, s.status)]
             /\ pc' = [pc EXCEPT ![r] = EdgeAfter("sentiment_analysis", s)]
    /\ chain_invoke(r, "sentiment_analysis")
    /\ UNCHANGED <<LLM_API_KEY, files, svc, acq, heard, foreign, rm, calls, http, whisper>>

final_result_of_defaults(s, key_points) ==
    [video_metadata |->
        [title |-> dict_get(s.title, ""),
         duration_seconds |-> dict_get_int(s.duration_seconds, 0),
         language_code |-> "unknown"],
     analysis |->
        [sentiment |-> dict_get(s.sentiment, ""),
         sentiment_score |-> dict_get_int(s.sentiment_score, 0),
         tone |-> dict_get(s.tone, ""),
         key_points |-> key_points]]

\* nodes.py:180-192
final_result_of(s, key_points) ==
    [video_metadata |->
        [title |-> dict_get(s.title, ""),
         duration_seconds |-> dict_get_int(s.duration_seconds, 0),
         language_code |-> dict_get(s.language_code, "unknown")],
     analysis |->
        [sentiment |-> dict_get(s.sentiment, ""),
         sentiment_score |-> dict_get_int(s.sentiment_score, 0),
         tone |-> dict_get(s.tone, ""),
         key_points |-> key_points]]

structuring_patches_partial(s) ==
    IF Falsy(s.transcript)
    THEN {[errors |-> <<Msg("No transcript available", "")>>, status |-> "skipped"]}
    ELSE IF get_llm_raises
    THEN {[errors |-> <<Msg("Error analyzing structuring: ", "No API key found.")>>,
           status |-> "failed"]}
    ELSE {[key_points |-> <<kp>>, final_result |-> <<final_result_of(s, kp)>>,
           status |-> "success"] : kp \in KeyPointsAnswers}
         \cup {[errors |-> <<Msg("Error analyzing structuring: ", "Failed to parse output")>>,
                key_points |-> <<kp>>, status |-> "failed"] : kp \in KeyPointsAnswers}

\* nodes.py:139-205
structuring_patches(s) ==
    IF Falsy(s.transcript)
    THEN {[errors |-> <<Msg("No transcript available", "")>>, status |-> "skipped"]}
    ELSE IF get_llm_raises
    THEN {[errors |-> <<Msg("Error analyzing structuring: ", "No API key found.")>>,
           status |-> "failed"]}
    ELSE {[key_points |-> <<kp>>, final_result |-> <<final_result_of(s, kp)>>,
           status |-> "success"] : kp \in KeyPointsAnswers}
         \cup {[errors |-> <<Msg("Error analyzing structuring: ", "Failed to parse output")>>,
                status |-> "failed"]}

structuring_node(r) ==
    /\ pc[r] = "structuring"
    /\ invoked' = [invoked EXCEPT ![r] = Append(@, "structuring")]
    /\ \E patch \in structuring_patches(state[r]) :
          LET s == Merge(state[r], patch)
          IN /\ state' = [state EXCEPT ![r] = s]
             /\ returned' = [returned EXCEPT ![r] = Append(@, s.status)]
             /\ pc' = [pc EXCEPT ![r] = EdgeAfter("structuring", s)]
    /\ chain_invoke(r, "structuring")
    /\ UNCHANGED <<LLM_API_KEY, files, svc, acq, heard, foreign, rm, calls, http, whisper>>

----------------------------------------------------------------------------
(* views.py: the two POST handlers after graph.invoke *)

\* views.py:60-67 and views.py:159-166 (helpers.py:78-86 is the same code):
\* result.get(key, default) for every analysis column; 0.5 is 5 tenths, and
\* the default of key_points is the empty list
persisted_fields(s) ==
    [title |-> dict_get(s.title, ""),
     duration_seconds |-> dict_get_int(s.duration_seconds, 0),
     language_code |-> dict_get(s.language_code, "unknown"),
     transcript |-> dict_get(s.transcript, ""),
     sentiment |-> dict_get(s.sentiment, "neutral"),
     sentiment_score |-> dict_get_int(s.sentiment_score, 5),
     tone |-> dict_get(s.tone, ""),
     key_points |-> IF s.key_points = <<>> THEN << <<>> >> ELSE s.key_points]

\* video_analysis.field = value for the fields of a patch
UpdateRow(row, patch) ==
    [k \in DOMAIN row |-> IF k \in DOMAIN patch THEN patch[k] ELSE row[k]]

\* serializers.py:51-64 -- to_representation
to_representation(row) ==
    [video_metadata |->
        [title |-> row.title, duration_seconds |-> row.duration_seconds,
         language_code |-> row.language_code],
     analysis |->
        [sentiment |-> row.sentiment, sentiment_score |-> row.sentiment_score,
         tone |-> row.tone, key_points |-> row.key_points]]

post_outcome_always_created(row, s, raised) ==
    IF raised
    THEN [row |-> [row EXCEPT !.errors = <<Msg("", "exception")>>],
          response |-> UnexpectedResponse(Msg("", "exception"))]
    ELSE LET saved == UpdateRow([row EXCEPT !.errors = s.errors], persisted_fields(s))
         IN [row |-> saved,
             response |-> [status |-> 201, keys |-> {"video_metadata", "analysis"},
                           details |-> <<>>, data |-> <<to_representation(saved)>>]]

\* views.py:48-99 and views.py:148-195 -- what post() does with the result
\* of graph.invoke, or with the exception that left it
post_outcome(row, s, raised) ==
    IF raised
    THEN [row |-> [row EXCEPT !.errors = <<Msg("", "exception")>>],
          response |-> UnexpectedResponse(Msg("", "exception"))]
    ELSE IF s.errors # <<>>
    THEN [row |-> [row EXCEPT !.errors = s.errors],
          response |-> [status |-> 400, keys |-> {"error", "details"},
                        details |-> s.errors, data |-> <<>>]]
    ELSE LET saved == UpdateRow(row, persisted_fields(s))
         IN [row |-> saved,
             response |-> [status |-> 201, keys |-> {"video_metadata", "analysis"},
                           details |-> <<>>, data |-> <<to_representation(saved)>>]]

\* views.py:196-198 -- finally: if temp_path and os.path.exists(temp_path)
remove_staged(f) == IF f.kind = "video" THEN NoStaged ELSE f

\* graph.invoke returned or raised: post() stores the outcome in the row,
\* answers, and (upload) removes the staged file.
post_return(r) ==
    /\ pc[r] \in {"END", "RAISED"}
    /\ request[r] # NoRequest
    /\ response[r] = NoResponse
    /\ LET out == post_outcome(record[r][1], state[r], pc[r] = "RAISED")
       IN /\ record' = [record EXCEPT ![r] = <<out.row>>]
          /\ response' = [response EXCEPT ![r] = out.response]
    /\ staged' = [staged EXCEPT ![r] = remove_staged(@)]
    /\ UNCHANGED <<LLM_API_KEY, files, state, pc, svc, invoked, returned, acq, heard,
                   foreign, rm, prompts, calls, request, whisper>>

----------------------------------------------------------------------------
Step(r) ==
    \/ graph_invoke(r)
    \/ extraction_node_begin(r)
    \/ download_audio(r)
    \/ transcribe_audio(r)
    \/ delete_temp_file_exists(r)
    \/ delete_temp_file_remove(r)
    \/ extraction_node_return(r)
    \/ sentiment_analysis_node(r)
    \/ structuring_node(r)
    \/ post_begin(r)
    \/ post_return(r)

Next == \E r \in Runs : Step(r)

\* Any interleaving of the runs
Spec == Init /\ [][Next]_vars

\* A run is at rest before its request arrives and after it was answered.
AtRest(r) == request[r] = NoRequest \/ response[r] # NoResponse

Alone(r) == \A q \in Runs \ {r} : AtRest(q)

NextSerial ==
    \E r \in Runs :
        \/ Alone(r) /\ graph_invoke(r)
        \/ Alone(r) /\ extraction_node_begin(r)
        \/ Alone(r) /\ download_audio(r)
        \/ Alone(r) /\ transcribe_audio(r)
        \/ Alone(r) /\ delete_temp_file_exists(r)
        \/ Alone(r) /\ delete_temp_file_remove(r)
        \/ Alone(r) /\ extraction_node_return(r)
        \/ Alone(r) /\ sentiment_analysis_node(r)
        \/ Alone(r) /\ structuring_node(r)
        \/ Alone(r) /\ post_begin(r)
        \/ Alone(r) /\ post_return(r)

\* One run at a time: a run starts only when no other run is under way.
SpecSerial == Init /\ [][NextSerial]_vars

\* Direct calls of the service on local videos: each caller holds a video
\* of its own in the temp directory (or none, a wrong path) and calls
\* get_transcript_from_file on it; the calls run at once.
InitFile ==
    /\ LLM_API_KEY = "sk-key"
    /\ files = [p \in Paths |-> NoFile]
    /\ state = [r \in Runs |-> VideoAnalysisState(Absent, Absent)]
    /\ pc = [r \in Runs |-> "get_transcript_from_file"]
    /\ svc = [r \in Runs |-> NoCall]
    /\ invoked = [r \in Runs |-> <<>>]
    /\ returned = [r \in Runs |-> <<>>]
    /\ acq = [r \in Runs |-> "none"]
    /\ heard = [r \in Runs |-> Nobody]
    /\ foreign = {}
    /\ rm = [r \in Runs |-> 0]
    /\ prompts = [r \in Runs |-> <<>>]
    /\ calls = [r \in Runs |-> [download |-> 0, transcribe |-> 0]]
    /\ request = [r \in Runs |-> NoRequest]
    /\ response = [r \in Runs |-> NoResponse]
    /\ record = [r \in Runs |-> <<>>]
    /\ staged \in [Runs -> {[kind |-> "video", language |-> l] : l \in LocalLanguages}
                           \cup {NoStaged}]
    /\ whisper = [r \in Runs |-> NoWhisperResponse]

NextFile ==
    \E r \in Runs :
        \/ extract_audio_from_video(r)
        \/ transcribe_audio(r)
        \/ delete_temp_file_exists(r)
        \/ delete_temp_file_remove(r)
        \/ get_transcript_from_file_return(r)

SpecFile == InitFile /\ [][NextFile]_vars

----------------------------------------------------------------------------
(* Properties *)

Halted(s) == s.errors # <<>> \/ s.status \in {"failed", "skipped"}

Stages == <<"extraction", "sentiment_analysis", "structuring">>

\* The stage a run is about to leave, when its next step is a stage return
Returning(r) ==
    CASE pc[r] = "extraction_return" -> 1
      [] pc[r] = "sentiment_analysis" -> 2
      [] pc[r] = "structuring" -> 3
      [] OTHER -> 0

\* The status before the last stage returned; Absent is the start state
PrevStatus(r) ==
    IF Len(returned[r]) >= 2 THEN returned[r][Len(returned[r]) - 1] ELSE Absent

\* C1: when extraction or sentiment analysis returns, the run goes to END
\* exactly if the state then has errors or status failed/skipped, and to the
\* next stage otherwise; a run at END starts no further stage.
C1_TransitionRule ==
    [][\A r \in Runs :
         /\ (Returning(r) \in {1, 2} /\ pc'[r] # pc[r]) =>
               IF Halted(state'[r])
               THEN pc'[r] = "END"
               ELSE pc'[r] = Stages[Returning(r) + 1]
         /\ pc[r] = "END" => (pc'[r] = "END" /\ invoked'[r] = invoked[r])]_vars

\* C1 witness: one run was ended right after a failed extraction, another
\* went on through all three stages.
C1_Witness ==
    \E r, q \in Runs :
        /\ pc[r] = "END" /\ state[r].status = "failed" /\ invoked[r] = <<"extraction">>
        /\ pc[q] = "END" /\ Len(invoked[q]) = 3

\* C2: once a run's state has errors or status failed/skipped, no step
\* changes its transcript, sentiment, sentiment_score, tone or key_points.
C2_FrozenAfterHalt ==
    [][\A r \in Runs :
         Halted(state[r]) =>
            /\ state'[r].transcript = state[r].transcript
            /\ state'[r].sentiment = state[r].sentiment
            /\ state'[r].sentiment_score = state[r].sentiment_score
            /\ state'[r].tone = state[r].tone
            /\ state'[r].key_points = state[r].key_points]_vars

\* C2 witness: a run that failed in sentiment analysis, holding a transcript,
\* while the other run is still working.
C2_Witness ==
    \E r, q \in Runs :
        /\ state[r].status = "failed" /\ state[r].transcript = "speech of a"
        /\ pc[r] = "END" /\ returned[r] = <<"extracted", "failed">>
        /\ pc[q] = "sentiment_analysis"

\* C3: no exception crosses from a stage into graph.invoke.
C3_NoExceptionEscapes == \A r \in Runs : pc[r] # "RAISED"

\* C4: no run reads, overwrites or deletes the audio file of another run,
\* and a run's transcript is that of its own video.
C4_RunsIndependent ==
    /\ foreign = {}
    /\ \A r \in Runs : heard[r] \in {Nobody, r}
    /\ \A r \in Runs :
          state[r].transcript \in {Absent, None, "", Speech(state[r].video_url)}

\* get_transcript of run r has returned or raised
ServiceDone(r) ==
    pc[r] \in {"extraction_return", "sentiment_analysis", "structuring", "END", "RAISED"}

\* C5: after get_transcript returned or raised, no audio file written by
\* that call is left in the temp directory.
C5_ArtifactDeleted ==
    \A r \in Runs : ServiceDone(r) =>
        \A p \in Paths : ~(files[p].kind # "none" /\ files[p].owner = r)

C7_LocatorDrivesAcquisition ==
    \A r \in Runs : acq[r] # "none" =>
        acq[r] = IF state[r].video_path # Absent THEN "local" ELSE "remote"

InProgress == {Absent, "extracted", "analyzed"}

Forward == {<<Absent, "extracted">>, <<"extracted", "analyzed">>, <<"analyzed", "success">>}

\* C8: a status change is one step forward along start -> extracted ->
\* analyzed -> success or a jump from an in-progress status to failed or
\* skipped; success, failed and skipped never change.
C8_StatusForward ==
    [][\A r \in Runs :
         state'[r].status # state[r].status =>
            \/ <<state[r].status, state'[r].status>> \in Forward
            \/ /\ state[r].status \in InProgress
               /\ state'[r].status \in {"failed", "skipped"}]_vars

\* C8 witness: a run that went all the way to success.
C8_Witness ==
    \E r \in Runs : returned[r] = <<"extracted", "analyzed", "success">> /\ pc[r] = "END"

\* The stage that run r is about to finish can return the status t
CanReturn(r, t) ==
    CASE Returning(r) = 1 -> ENABLED (extraction_node_return(r) /\ state'[r].status = t)
      [] Returning(r) = 2 -> ENABLED (sentiment_analysis_node(r) /\ state'[r].status = t)
      [] Returning(r) = 3 -> ENABLED (structuring_node(r) /\ state'[r].status = t)
      [] OTHER -> FALSE

\* C9 as claimed, for the status 'skipped': where extraction is about to
\* return (status still start) and where structuring is about to run (status
\* analyzed), the next status can be 'skipped'.  It fails in every such
\* state, not only in some: that is the third conjunct of
\* C9_TerminalsReachable.
C9_SkippedFromEveryStage ==
    \A r \in Runs : Returning(r) \in {1, 3} => CanReturn(r, "skipped")

\* C9 amended: failed follows any in-progress status, skipped follows only
\* extracted.  Extraction and structuring can never return skipped;
\* structuring can always fail; sentiment analysis skips exactly on an empty
\* transcript and can fail on any other.
C9_TerminalsReachable ==
    \A r \in Runs :
        /\ state[r].status = "skipped" => PrevStatus(r) = "extracted"
        /\ state[r].status = "failed" => PrevStatus(r) \in InProgress
        /\ Returning(r) \in {1, 3} => ~CanReturn(r, "skipped")
        /\ Returning(r) = 3 => CanReturn(r, "failed")
        /\ Returning(r) = 2 =>
              /\ CanReturn(r, "skipped") <=> Falsy(state[r].transcript)
              /\ CanReturn(r, "failed") <=> ~Falsy(state[r].transcript)

\* C9 witness: one run skipped from extracted, the other failed from analyzed.
C9_Witness ==
    \E r, q \in Runs :
        /\ returned[r] = <<"extracted", "skipped">>
        /\ returned[q] = <<"extracted", "analyzed", "failed">>

\* C10: the stages start in the order extraction, sentiment analysis,
\* structuring, each only after the one before it returned; sentiment
\* analysis starts only after extraction returned 'extracted', structuring
\* only after sentiment analysis returned 'analyzed'.
C10_StrictOrder ==
    \A r \in Runs :
        /\ Len(invoked[r]) <= 3
        /\ invoked[r] = SubSeq(Stages, 1, Len(invoked[r]))
        /\ Len(returned[r]) <= Len(invoked[r])
        /\ Len(invoked[r]) <= Len(returned[r]) + 1
        /\ Len(invoked[r]) >= 2 => returned[r][1] = "extracted"
        /\ Len(invoked[r]) >= 3 => returned[r][2] = "analyzed"
        /\ pc[r] = "sentiment_analysis" => state[r].status = "extracted"
        /\ pc[r] = "structuring" => state[r].status = "analyzed"

\* C10 witness: a run whose structuring stage has started and returned.
C10_Witness ==
    \E r \in Runs : invoked[r] = Stages /\ Len(returned[r]) = 3

\* The extraction of run r got an error from acquisition or transcription
ExtractionError(r) == ~svc[r].dl_success \/ ~svc[r].tr_success

\* C11: when extraction got an error, the state after the stage is the state
\* before it with status 'failed' and errors the one error message; every
\* other key is as it was, also when the download had produced metadata.
C11_FailurePatchOnly ==
    [][\A r \in Runs :
         (pc[r] = "extraction_return" /\ pc'[r] # pc[r] /\ ExtractionError(r)) =>
            state'[r] = [state[r] EXCEPT
                            !.status = "failed",
                            !.errors = <<IF ~svc[r].dl_success THEN svc[r].dl_error
                                         ELSE svc[r].tr_error>>]]_vars

\* C11 witness: the download gave a title, the transcription failed, and the
\* state holds neither title nor transcript.
C11_Witness ==
    \E r \in Runs :
        /\ returned[r] = <<"failed">>
        /\ svc[r].dl_success /\ svc[r].metadata.title = "A title" /\ ~svc[r].tr_success
        /\ state[r].title = Absent /\ state[r].transcript = Absent
        /\ state[r].duration_seconds = AbsentInt /\ state[r].language_code = Absent

\* C12: after a successful extraction transcript, title, duration_seconds
\* and language_code are set and none of the three metadata fields is null.
C12_ExtractedDefaults ==
    \A r \in Runs :
        (returned[r] # <<>> /\ returned[r][1] = "extracted") =>
            /\ state[r].transcript \notin {Absent, None}
            /\ state[r].title \notin {Absent, None}
            /\ state[r].duration_seconds \notin {AbsentInt, NoneInt}
            /\ state[r].language_code \notin {Absent, None}

NoTranscript(s) == s.transcript \in {Absent, None, ""}

\* C13: with no transcript at the sentiment stage, the stage returns status
\* 'skipped' and errors ['No transcript available'], nothing is sent to the
\* chat model, and structuring is not invoked.
C13_NoTranscriptSkips ==
    \A r \in Runs :
        (Len(returned[r]) >= 2 /\ NoTranscript(state[r])) =>
            /\ returned[r] = <<"extracted", "skipped">>
            /\ state[r].status = "skipped"
            /\ state[r].errors = <<Msg("No transcript available", "")>>
            /\ prompts[r] = <<>>
            /\ invoked[r] = <<"extraction", "sentiment_analysis">>
            /\ pc[r] = "END"

\* C13 witness: a run whose transcription returned the empty text, skipped.
C13_Witness ==
    \E r \in Runs :
        /\ state[r].transcript = "" /\ svc[r].tr_success
        /\ returned[r] = <<"extracted", "skipped">> /\ pc[r] = "END"

\* C14: a DownloadError gives status 'failed' and the single message
\* 'DownloadError while downloading audio: ...', any other acquisition
\* failure the single message 'Error while downloading audio: ...', and
\* transcribe_audio is not called in either case.
C14_DownloadErrorKinds ==
    \A r \in Runs :
        (returned[r] # <<>> /\ svc[r].raised # "none") =>
            /\ returned[r] = <<"failed">>
            /\ state[r].status = "failed"
            /\ Len(state[r].errors) = 1
            /\ state[r].errors[1].prefix =
                  IF svc[r].raised = "DownloadError"
                  THEN "DownloadError while downloading audio: "
                  ELSE "Error while downloading audio: "
            /\ calls[r].transcribe = 0

\* C14 witness: one run failed on a DownloadError, the other on another
\* exception.
C14_Witness ==
    \E r, q \in Runs :
        /\ svc[r].raised = "DownloadError" /\ returned[r] = <<"failed">>
        /\ svc[q].raised = "Exception" /\ returned[q] = <<"failed">>

\* C15: a sentiment or structuring stage that failed left exactly one
\* message with its own prefix and set none of its output fields; no
\* exception leaves these two stages.
C15_AnalysisFailureClean ==
    \A r \in Runs :
        /\ (Len(returned[r]) >= 2 /\ returned[r][2] = "failed") =>
              /\ Len(state[r].errors) = 1
              /\ state[r].errors[1].prefix = "Error analyzing sentiment: "
              /\ state[r].sentiment = Absent
              /\ state[r].sentiment_score = AbsentInt
              /\ state[r].tone = Absent
              /\ state[r].key_points = <<>>
              /\ state[r].final_result = <<>>
        /\ (Len(returned[r]) >= 3 /\ returned[r][3] = "failed") =>
              /\ Len(state[r].errors) = 1
              /\ state[r].errors[1].prefix = "Error analyzing structuring: "
              /\ state[r].key_points = <<>>
              /\ state[r].final_result = <<>>
        /\ pc[r] = "RAISED" => invoked[r] = <<"extraction">>

\* C15 witness: one run failed in sentiment analysis, the other in structuring.
C15_Witness ==
    \E r, q \in Runs :
        /\ returned[r] = <<"extracted", "failed">>
        /\ returned[q] = <<"extracted", "analyzed", "failed">>

\* C16: a run with status 'success' has exactly three key points.
C16_ThreeKeyPoints ==
    \A r \in Runs :
        state[r].status = "success" =>
            /\ Len(state[r].key_points) = 1
            /\ Len(state[r].key_points[1]) = 3

\* C17: with status 'analyzed' or 'success' the sentiment is positive,
\* negative or neutral and the score lies in [0.0, 1.0] (0..10 tenths).
C17_SentimentInRange ==
    \A r \in Runs :
        state[r].status \in {"analyzed", "success"} =>
            /\ state[r].sentiment \in {"positive", "negative", "neutral"}
            /\ state[r].sentiment_score >= 0
            /\ state[r].sentiment_score <= 10

\* C18: what a stage sends to the chat model is the run's transcript, whole
\* when it has at most 5000 characters and its first 5000 characters when it
\* is longer; a sentiment stage that got as far as the chat model sent it.
C18_PromptTruncation ==
    \A r \in Runs :
        /\ \A i \in DOMAIN prompts[r] :
              LET sent == prompts[r][i].transcript
                  n == str_len(state[r].transcript)
              IN /\ sent.of = state[r].transcript
                 /\ n <= 5000 => sent.chars = n
                 /\ n > 5000 => sent.chars = 5000
        /\ (Len(returned[r]) >= 2 /\ ~NoTranscript(state[r]) /\ LLM_API_KEY # None) =>
              /\ prompts[r] # <<>>
              /\ prompts[r][1].node = "sentiment_analysis"

\* C18 witness: a transcript of 5001 characters sent cut to 5000, and one of
\* exactly 5000 characters sent whole.
C18_Witness ==
    \E r, q \in Runs :
        /\ str_len(state[r].transcript) = 5001 /\ prompts[r] # <<>>
        /\ prompts[r][1].transcript.chars = 5000
        /\ str_len(state[q].transcript) = 5000 /\ prompts[q] # <<>>
        /\ prompts[q][1].transcript.chars = 5000

\* C19: with status 'success' the final result holds the title,
\* duration_seconds and language_code and the sentiment, sentiment_score and
\* tone of the run-state, and the key points of this stage.
C19_FinalResultFromState ==
    \A r \in Runs :
        state[r].status = "success" =>
            /\ Len(state[r].key_points) = 1
            /\ state[r].final_result =
                  <<[video_metadata |->
                        [title |-> state[r].title,
                         duration_seconds |-> state[r].duration_seconds,
                         language_code |-> state[r].language_code],
                     analysis |->
                        [sentiment |-> state[r].sentiment,
                         sentiment_score |-> state[r].sentiment_score,
                         tone |-> state[r].tone,
                         key_points |-> state[r].key_points[1]]]>>
            /\ state[r].sentiment = state[r].final_result[1].analysis.sentiment
            /\ returned[r] = <<"extracted", "analyzed", "success">>

\* C19 witness: a successful run whose metadata came from the download.
C19_Witness ==
    \E r \in Runs :
        /\ state[r].status = "success" /\ pc[r] = "END"
        /\ state[r].final_result[1].video_metadata.language_code = "en"
        /\ state[r].final_result[1].video_metadata.title = "A title"
        /\ state[r].final_result[1].analysis.sentiment = "positive"

\* C20: no exception leaves transcribe_audio, and a transcription that
\* failed returns success=false and no transcript.
C20_TranscribeNeverRaises ==
    [][\A r \in Runs :
         pc[r] \in {"transcribe_audio", "finally_exists", "finally_remove"} =>
            /\ pc'[r] # "RAISED"
            /\ (svc'[r].tr_error # NoMsg) =>
                  (~svc'[r].tr_success /\ svc'[r].transcript = None)]_vars

----------------------------------------------------------------------------
(* Properties of the service compositions, the request handlers and the
   sink *)

\* get_transcript of run r is about to return a transcription
Transcribed(r) == pc[r] = "extraction_return" /\ svc[r].dl_success /\ svc[r].tr_success

\* The detected language as reported and as a two-letter code
DetectedTags(r) ==
    {svc[r].tr_language} \cup
    (IF svc[r].tr_language # None /\ str_lower(svc[r].tr_language) \in DOMAIN LANGUAGE_CODE_MAP
     THEN {LANGUAGE_CODE_MAP[str_lower(svc[r].tr_language)]} ELSE {})

\* C21: the language_code of get_transcript's result is the provider's
\* normalised language when the provider gave one, and the language the
\* transcription detected when it gave none.
C21_RemoteLanguageMerged ==
    \A r \in Runs : Transcribed(r) =>
        LET result == get_transcript_result(svc[r])
        IN IF svc[r].metadata.language_code # None
           THEN result.metadata.language_code = svc[r].metadata.language_code
           ELSE result.metadata.language_code \in DetectedTags(r)

\* C22: when get_transcript_from_file returns metadata, its language_code is
\* the normalised tag the transcription detected and its duration_seconds is
\* what probing the video returned in that call, whatever the acquisition
\* metadata holds.
C22_LocalComposition ==
    \A r \in Runs : (whisper[r].returned /\ whisper[r].has_metadata) =>
        /\ svc[r].tr_language # None
        /\ whisper[r].metadata.language_code \in
              {LANGUAGE_CODE_MAP[n] : n \in DOMAIN LANGUAGE_CODE_MAP} \cup {None}
        /\ str_lower(svc[r].tr_language) \in DOMAIN LANGUAGE_CODE_MAP =>
              whisper[r].metadata.language_code = LANGUAGE_CODE_MAP[str_lower(svc[r].tr_language)]
        /\ whisper[r].metadata.duration_seconds = svc[r].probed

\* C22 witness: a call returned 'en' for a video detected as 'English', with
\* the duration of its own probe (10) where the acquisition metadata had none.
C22_Witness ==
    \E r \in Runs :
        /\ whisper[r].returned /\ whisper[r].has_metadata
        /\ svc[r].tr_language = "English"
        /\ whisper[r].metadata.language_code = "en"
        /\ svc[r].metadata.duration_seconds = NoneInt
        /\ whisper[r].metadata.duration_seconds = 10

\* C23: a detected name of the table, in any case, is normalised to its
\* two-letter code, and every other name to "unknown".
C23_NormalizationTotal ==
    \A r \in Runs : (whisper[r].returned /\ whisper[r].has_metadata) =>
        IF str_lower(svc[r].tr_language) \in DOMAIN LANGUAGE_CODE_MAP
        THEN whisper[r].metadata.language_code = LANGUAGE_CODE_MAP[str_lower(svc[r].tr_language)]
        ELSE whisper[r].metadata.language_code = "unknown"

\* The POST of run r was answered after its graph.invoke ended
Answered(r) == pc[r] \in {"END", "RAISED"} /\ response[r] # NoResponse

\* C24: the row of a run that ended without errors has language_code
\* 'unknown', sentiment 'neutral' and sentiment_score 0.5 where the run
\* produced none, and none of the three is null.
C24_SinkDefaults ==
    \A r \in Runs : (Answered(r) /\ pc[r] = "END" /\ state[r].errors = <<>>) =>
        LET row == record[r][1]
        IN /\ row.language_code # None /\ row.sentiment # None
           /\ row.sentiment_score # NoneInt
           /\ state[r].language_code \in {Absent, None} => row.language_code = "unknown"
           /\ state[r].sentiment \in {Absent, None} => row.sentiment = "neutral"
           /\ state[r].sentiment_score \in {AbsentInt, NoneInt} => row.sentiment_score = 5

AnalysisColumns ==
    {"title", "duration_seconds", "language_code", "transcript", "sentiment",
     "sentiment_score", "tone", "key_points"}

Rejected(r) ==
    /\ request[r].view = "youtube"
    /\ request[r].video_url \in {Absent, NotYoutubeUrl}

\* C26: a request without video_url or with a URL of another site is
\* answered 400, and no graph is invoked and no download, transcription or
\* chat model call is made for it.
C26_InvalidRejected ==
    \A r \in Runs : Rejected(r) =>
        /\ response[r].status = 400
        /\ pc[r] = "START" /\ invoked[r] = <<>>
        /\ calls[r].download = 0 /\ calls[r].transcribe = 0 /\ prompts[r] = <<>>

\* C27: a request whose video_url is a well-formed URL of another site is
\* answered 400 or 500 with a body that has the key 'error'.
C27_InvalidFormatBody ==
    \A r \in Runs : request[r].video_url = NotYoutubeUrl =>
        /\ response[r].status \in {400, 500}
        /\ "error" \in response[r].keys

\* The extraction stage of run r has returned
Extracted(r) == Len(returned[r]) >= 1

\* What the acquisition and transcription layer answered to run r
LayerAnswers(r) ==
    [dl_success |-> svc[r].dl_success, dl_error |-> svc[r].dl_error,
     metadata |-> svc[r].metadata, tr_success |-> svc[r].tr_success,
     transcript |-> svc[r].transcript, tr_error |-> svc[r].tr_error]

ExtractedFields(s) ==
    [transcript |-> s.transcript, title |-> s.title,
     duration_seconds |-> s.duration_seconds, language_code |-> s.language_code]

Count(seq, x) == Cardinality({i \in 1..Len(seq) : seq[i] = x})

\* C29, the part about single execution: a run downloads at most once,
\* transcribes at most once, runs each stage at most once and sends at most
\* one prompt per analysis stage.
C29_AtMostOnce ==
    \A r \in Runs :
        /\ calls[r].download <= 1 /\ calls[r].transcribe <= 1
        /\ Len(invoked[r]) <= 3
        /\ \A n \in {"extraction", "sentiment_analysis", "structuring"} :
              Count(invoked[r], n) <= 1
        /\ \A n \in {"sentiment_analysis", "structuring"} :
              Cardinality({i \in 1..Len(prompts[r]) : prompts[r][i].node = n}) <= 1

\* C29: no call and no stage is repeated, and a run that has stopped,
\* after at most three stages, has stopped at END.
C29_NoRetries ==
    /\ C29_AtMostOnce
    /\ \A r \in Runs :
          (invoked[r] # <<>> /\ ~ENABLED Step(r) /\ response[r] # NoResponse) => pc[r] = "END"

\* The transcription of a local video failed after its audio was extracted
TranscriptionFailed(r) ==
    /\ svc[r].caller = "get_transcript_from_file"
    /\ svc[r].dl_success /\ Truthy(svc[r].tr_error)

\* C30: when the audio was extracted and the transcription failed,
\* get_transcript_from_file raises nothing and returns the transcription
\* error with no transcript.
C30_FailedTranscriptionReturned ==
    \A r \in Runs : TranscriptionFailed(r) =>
        /\ pc[r] # "RAISED"
        /\ pc[r] = "RETURNED" =>
              /\ whisper[r].returned /\ whisper[r].error = svc[r].tr_error
              /\ whisper[r].transcript = None

----------------------------------------------------------------------------
(* Properties of the run-state as a whole and of the upload handler *)

\* C31: where status is 'success' there are no errors, the transcript is
\* not empty, the sentiment stage has returned 'analyzed' and left sentiment,
\* sentiment_score and tone, and key_points and final_result are set; where
\* status is anything else, key_points and final_result are unset.
C31_SuccessComplete ==
    \A r \in Runs :
        IF state[r].status = "success"
        THEN /\ state[r].errors = <<>>
             /\ state[r].transcript \notin {Absent, None, ""}
             /\ Len(returned[r]) = 3 /\ returned[r][2] = "analyzed"
             /\ state[r].sentiment \notin {Absent, None}
             /\ state[r].sentiment_score \notin {AbsentInt, NoneInt}
             /\ state[r].tone \notin {Absent, None}
             /\ state[r].key_points # <<>> /\ state[r].final_result # <<>>
        ELSE state[r].key_points = <<>> /\ state[r].final_result = <<>>

\* C31 witness: one run is at 'success' with its results, the other failed
\* in structuring.
C31_Witness ==
    \E r, q \in Runs :
        /\ state[r].status = "success"
        /\ state[r].key_points = << <<"point 1", "point 2", "point 3">> >>
        /\ returned[q] = <<"extracted", "analyzed", "failed">>

\* The stages of run r that returned with an error recorded
ErrorReturns(r) == {i \in 1..Len(returned[r]) : returned[r][i] \in {"failed", "skipped"}}

\* C32: a run that has ended holds at most one error message, at most one of
\* its stages returned failed or skipped, and it has an error exactly if its
\* status is failed or skipped.
C32_SingleError ==
    \A r \in Runs : pc[r] = "END" =>
        /\ Len(state[r].errors) <= 1
        /\ Cardinality(ErrorReturns(r)) <= 1
        /\ (state[r].errors # <<>>) = (state[r].status \in {"failed", "skipped"})

\* C32 witness: one run ended failed in its second stage with one message,
\* the other ended in success with none.
C32_Witness ==
    \E r, q \in Runs :
        /\ pc[r] = "END" /\ returned[r] = <<"extracted", "failed">>
        /\ Len(state[r].errors) = 1
        /\ pc[q] = "END" /\ state[q].status = "success" /\ state[q].errors = <<>>

\* C33: structuring starts only with a transcript that is not empty and with
\* status 'analyzed', and the only stage that returns 'skipped' is the
\* second one, sentiment analysis.
C33_StructuringNeverSkips ==
    \A r \in Runs :
        /\ pc[r] = "structuring" =>
              /\ state[r].transcript \notin {Absent, None, ""}
              /\ state[r].status = "analyzed"
        /\ \A i \in 1..Len(returned[r]) : returned[r][i] = "skipped" => i = 2

\* C33 witness: one run is about to start structuring, the other was skipped
\* by sentiment analysis.
C33_Witness ==
    \E r, q \in Runs :
        /\ pc[r] = "structuring"
        /\ returned[q] = <<"extracted", "skipped">> /\ pc[q] = "END"

\* The upload of run r passed validation and was answered
UploadAnswered(r) ==
    /\ request[r].view = "upload" /\ request[r].video = "clip.mp4"
    /\ response[r] # NoResponse

\* C34: after the POST of a valid upload returned, whichever way, the file
\* it staged in the temp directory is gone and it created exactly one row.
C34_StagedFileRemoved ==
    \A r \in Runs : UploadAnswered(r) =>
        /\ staged[r].kind = "none"
        /\ Len(record[r]) = 1
====
